---- MODULE Spec2Model ----
(***************************************************************************)
(* Model of the Mergington High School activities API (src/src/app.py,    *)
(* src/src/models.py): a FastAPI application over a SQLite store with      *)
(* three relations, activities, participants and the association table     *)
(* activity_participants.                                                  *)
(*                                                                         *)
(* Two specifications are given.  Spec runs the handlers one request at a  *)
(* time, each handler being one atomic action.  SpecConc runs up to        *)
(* NumRequests handlers in worker threads and interleaves them at the      *)
(* granularity of the SQL statements each handler issues.  Both are built  *)
(* from the same step operators.                                           *)
(***************************************************************************)
EXTENDS Integers, Sequences, FiniteSets, Bags, TLC

VARIABLES
    activities,             \* rows of table 'activities'
    participants,           \* rows of table 'participants' (the primary key email)
    activity_participants,  \* rows of the association table: a bag of <<activity_id, email>>
    last,                   \* Spec: the request that ran last, with its response
    req                     \* SpecConc: the request each worker is serving

vars == <<activities, participants, activity_participants, last, req>>

(***************************************************************************)
(* Bounds                                                                  *)
(***************************************************************************)
\* worker threads serving requests at the same time
NumRequests == 2

Requests == 1..NumRequests

(***************************************************************************)
(* Values                                                                  *)
(***************************************************************************)
\* Python None for a Participant lookup.  A Participant that was found is the
\* one-element tuple of its email, so that no email is taken for None.
None == <<>>
\* Python None for an Activity lookup (ids start at 1)
NoActivity == 0

ChessClub == "Chess Club"
ProgrammingClass == "Programming Class"
GymClass == "Gym Class"
UnknownClub == "Unknown Club"

michael == "michael@mergington.edu"
daniel == "daniel@mergington.edu"
emma == "emma@mergington.edu"
sophia == "sophia@mergington.edu"
john == "john@mergington.edu"
olivia == "olivia@mergington.edu"
new == "new@mergington.edu"

\* init_sample_data: the three activity rows, ids assigned in insertion order
sample_activities ==
    { [id |-> 1, name |-> ChessClub,
       description |-> "Learn strategies and compete in chess tournaments",
       schedule |-> "Fridays, 3:30 PM - 5:00 PM", max_participants |-> 12],
      [id |-> 2, name |-> ProgrammingClass,
       description |-> "Learn programming fundamentals and build software projects",
       schedule |-> "Tuesdays and Thursdays, 3:30 PM - 4:30 PM", max_participants |-> 20],
      [id |-> 3, name |-> GymClass,
       description |-> "Physical education and sports activities",
       schedule |-> "Mondays, Wednesdays, Fridays, 2:00 PM - 3:00 PM", max_participants |-> 30] }

\* init_sample_data: the association rows of the sample data
sample_enrollment ==
    { <<1, michael>>, <<1, daniel>>, <<2, emma>>, <<2, sophia>>, <<3, john>>, <<3, olivia>> }

\* Ten further students who signed up for Chess Club during an earlier run of
\* the server; activities.db persists, and init_sample_data returns at once
\* when the activities table is not empty.  Chess Club then holds 12 = its
\* max_participants.
EarlierSignups ==
    { <<1, "s01@mergington.edu">>, <<1, "s02@mergington.edu">>, <<1, "s03@mergington.edu">>,
      <<1, "s04@mergington.edu">>, <<1, "s05@mergington.edu">>, <<1, "s06@mergington.edu">>,
      <<1, "s07@mergington.edu">>, <<1, "s08@mergington.edu">>, <<1, "s09@mergington.edu">>,
      <<1, "s10@mergington.edu">> }

\* Inputs of the requests
ActivityNames == {ChessClub, ProgrammingClass, GymClass, UnknownClub}
Emails == {michael, emma, new}
ConcActivityNames == {ChessClub, UnknownClub}
ConcEmails == {emma, new}

(***************************************************************************)
(* The store as one value, and the queries the handlers issue              *)
(***************************************************************************)
DB == [activities |-> activities, participants |-> participants,
       activity_participants |-> activity_participants]

\* db.query(Activity).filter(Activity.name == activity_name).first(): the id, or NoActivity
FindActivity(db, activity_name) ==
    IF \E a \in db.activities : a.name = activity_name
    THEN (CHOOSE a \in db.activities : a.name = activity_name).id
    ELSE NoActivity

\* db.query(Participant).filter(Participant.email == email).first()
FindParticipant(db, email) ==
    IF email \in db.participants THEN <<email>> ELSE None

\* participant.activities: the lazy load joins the association table with
\* activities; the ORM returns each Activity object once
ParticipantActivities(db, email) ==
    { a.id : a \in { x \in db.activities : CopiesIn(<<x.id, email>>, db.activity_participants) > 0 } }

\* activity.participants: the lazy load joins the association table with
\* participants; the ORM returns each Participant object once
ActivityParticipants(db, id) ==
    { e \in db.participants : CopiesIn(<<id, e>>, db.activity_participants) > 0 }

(***************************************************************************)
(* get_db and the session                                                  *)
(***************************************************************************)
NoSession == [closed |-> FALSE, in_transaction |-> FALSE]

\* db = next(get_db()): SessionLocal() creates the session and the generator
\* yields it; the generator object is a temporary of the expression, so
\* reference counting finalises it as soon as next() has returned, which runs
\* the finally block: db.close() is called before the handler's first query.
get_db == [closed |-> TRUE, in_transaction |-> FALSE]

\* A query on the session begins a transaction (autobegin), also after close()
Query(session) == [session EXCEPT !.in_transaction = TRUE]

\* db.commit() ends the transaction and returns the connection
Commit(session) == [session EXCEPT !.in_transaction = FALSE]

(***************************************************************************)
(* Request contexts: the locals of one handler invocation                  *)
(***************************************************************************)
Idle ==
    [op |-> "idle", activity_name |-> "", email |-> "", pc |-> "idle",
     db |-> NoSession, activity |-> NoActivity, participant |-> None,
     queried_participant |-> FALSE, pending |-> {}, rows |-> {},
     status_code |-> 0, detail |-> "", message |-> <<>>, activities_dict |-> <<>>]

NewRequest(op, activity_name, email) ==
    [Idle EXCEPT !.op = op, !.activity_name = activity_name, !.email = email, !.pc = "start"]

\* raise HTTPException(status_code, detail): the handler ends, nothing is committed
HTTPException(c, status_code, detail) ==
    [c EXCEPT !.pc = "done", !.status_code = status_code, !.detail = detail]

\* an exception no handler catches: FastAPI answers 500 Internal Server Error
ServerError(c) ==
    [c EXCEPT !.pc = "done", !.status_code = 500, !.detail = "Internal Server Error"]

\* return {"message": f"Signed up {email} for {activity_name}"}
SignedUpMessage(email, activity_name) == <<"Signed up ", email, " for ", activity_name>>

\* return {"message": f"Unregistered {email} from {activity_name}"}
UnregisteredMessage(email, activity_name) == <<"Unregistered ", email, " from ", activity_name>>

(***************************************************************************)
(* The steps of the handlers.  Each takes the committed store and the      *)
(* handler's context and returns both as they are after the step.          *)
(***************************************************************************)
Result(db, c) == [db |-> db, c |-> c]

\* db = next(get_db()), the first statement of each handler
Acquire(db, c) ==
    Result(db, [c EXCEPT !.db = get_db,
                         !.pc = IF c.op = "get_activities" THEN "query_all" ELSE "query_activity"])

\* Variant of QueryActivity: the 'if not activity' test is missing
QueryActivity_NoCheck(db, c) ==
    Result(db, [c EXCEPT !.db = Query(@), !.activity = FindActivity(db, c.activity_name),
                         !.pc = "query_participant"])

\* Get activity; 404 when no row matches the name
QueryActivity(db, c) ==
    LET activity == FindActivity(db, c.activity_name)
        c1 == [c EXCEPT !.db = Query(@), !.activity = activity]
    IN  IF activity = NoActivity
        THEN Result(db, HTTPException(c1, 404, "Activity not found"))
        ELSE Result(db, [c1 EXCEPT !.pc = "query_participant"])

\* participant = db.query(Participant).filter(Participant.email == email).first()
QueryParticipant(db, c) ==
    Result(db, [c EXCEPT !.db = Query(@), !.participant = FindParticipant(db, c.email),
                         !.queried_participant = TRUE, !.pc = "check"])

\* Variant of AlreadySignedUp: tests 'participant.activities' instead of
\* 'activity in participant.activities'
AlreadySignedUp_AnyActivity(db, c) ==
    c.participant # None /\ ParticipantActivities(db, c.participant[1]) # {}

\* signup: if participant and activity in participant.activities
AlreadySignedUp(db, c) ==
    c.participant # None /\ c.activity \in ParticipantActivities(db, c.participant[1])

\* Variant of SignupCheck: no 'already signed up' test
SignupCheck_NoCheck(db, c) ==
    Result(db, [c EXCEPT !.pc = "append"])

\* Variant of SignupCheck: also rejects a signup when the activity is full
SignupCheck_Capacity(db, c) ==
    IF AlreadySignedUp(db, c)
    THEN Result(db, HTTPException(c, 400, "Student is already signed up"))
    ELSE IF Cardinality(ActivityParticipants(db, c.activity))
              >= (CHOOSE a \in db.activities : a.id = c.activity).max_participants
    THEN Result(db, HTTPException(c, 400, "Activity is full"))
    ELSE Result(db, [c EXCEPT !.pc = "append"])

\* signup: Check if student is already signed up
SignupCheck(db, c) ==
    IF AlreadySignedUp(db, c)
    THEN Result(db, HTTPException(c, 400, "Student is already signed up"))
    ELSE Result(db, [c EXCEPT !.pc = "append"])

\* signup: Create participant if doesn't exist; activity.participants.append.
\* With autoflush off both changes stay pending in the session until commit.
SignupAppend(db, c) ==
    Result(db, [c EXCEPT !.pending = (IF c.participant = None THEN {"participant"} ELSE {})
                                       \cup {"association"},
                         !.participant = <<c.email>>,
                         !.pc = "commit"])

\* Variant of SignupCommit: the append is missing, only the participant is saved
SignupCommit_NoAppend(db, c) ==
    IF "participant" \in c.pending /\ c.email \in db.participants
    THEN Result(db, ServerError(c))
    ELSE Result([db EXCEPT !.participants = @ \cup {c.email}],
                [c EXCEPT !.db = Commit(@), !.pending = {}, !.pc = "done",
                          !.status_code = 200,
                          !.message = SignedUpMessage(c.email, c.activity_name)])

\* Variant of SignupCommit: the association table has a primary key on
\* (activity_id, email), so a second row for the pair fails the flush
SignupCommit_UniqueAssociation(db, c) ==
    IF \/ "participant" \in c.pending /\ c.email \in db.participants
       \/ CopiesIn(<<c.activity, c.email>>, db.activity_participants) > 0
    THEN Result(db, ServerError(c))
    ELSE Result([db EXCEPT !.participants = @ \cup {c.email},
                           !.activity_participants = @ (+) SetToBag({<<c.activity, c.email>>})],
                [c EXCEPT !.db = Commit(@), !.pending = {}, !.pc = "done",
                          !.status_code = 200,
                          !.message = SignedUpMessage(c.email, c.activity_name)])

\* signup: db.commit() flushes the pending INSERTs and commits.  INSERT INTO
\* participants fails on the primary key when another request has committed
\* the same email meanwhile (IntegrityError); the INSERT into the association
\* table meets no constraint.
SignupCommit(db, c) ==
    IF "participant" \in c.pending /\ c.email \in db.participants
    THEN Result(db, ServerError(c))
    ELSE Result([db EXCEPT !.participants = @ \cup {c.email},
                           !.activity_participants = @ (+) SetToBag({<<c.activity, c.email>>})],
                [c EXCEPT !.db = Commit(@), !.pending = {}, !.pc = "done",
                          !.status_code = 200,
                          !.message = SignedUpMessage(c.email, c.activity_name)])

\* unregister: if not participant or activity not in participant.activities
NotSignedUp(db, c) ==
    c.participant = None \/ c.activity \notin ParticipantActivities(db, c.participant[1])

\* Variant of UnregisterCheck: creates and commits the participant row when it
\* is absent, as signup does, before the check
UnregisterCheck_CreatesParticipant(db, c) ==
    IF NotSignedUp(db, c)
    THEN Result([db EXCEPT !.participants = @ \cup {c.email}],
                HTTPException(c, 400, "Student is not signed up for this activity"))
    ELSE Result(db, [c EXCEPT !.pc = "remove"])

\* unregister: the membership check
UnregisterCheck(db, c) ==
    IF NotSignedUp(db, c)
    THEN Result(db, HTTPException(c, 400, "Student is not signed up for this activity"))
    ELSE Result(db, [c EXCEPT !.pc = "remove"])

\* unregister: activity.participants.remove(participant) loads the collection
\* and removes from the list; list.remove raises ValueError when the
\* participant is no longer in it
UnregisterRemove(db, c) ==
    IF c.participant[1] \notin ActivityParticipants(db, c.activity)
    THEN Result(db, ServerError(c))
    ELSE Result(db, [c EXCEPT !.pending = {"association"}, !.pc = "commit"])

\* Variant of UnregisterCommit: commits without the remove
UnregisterCommit_NoRemove(db, c) ==
    IF CopiesIn(<<c.activity, c.email>>, db.activity_participants) # 1
    THEN Result(db, ServerError(c))
    ELSE Result(db,
                [c EXCEPT !.db = Commit(@), !.pending = {}, !.pc = "done",
                          !.status_code = 200,
                          !.message = UnregisteredMessage(c.email, c.activity_name)])

\* Variant of UnregisterCommit: also deletes the participant row (db.delete(participant))
UnregisterCommit_DeletesParticipant(db, c) ==
    IF CopiesIn(<<c.activity, c.email>>, db.activity_participants) # 1
    THEN Result(db, ServerError(c))
    ELSE Result([db EXCEPT !.activity_participants = @ (-) SetToBag({<<c.activity, c.email>>}),
                           !.participants = @ \ {c.email}],
                [c EXCEPT !.db = Commit(@), !.pending = {}, !.pc = "done",
                          !.status_code = 200,
                          !.message = UnregisteredMessage(c.email, c.activity_name)])

\* unregister: db.commit() flushes DELETE FROM activity_participants WHERE
\* activity_id = ? AND email = ?; the ORM expects one row to be deleted and
\* raises StaleDataError otherwise, and the flush is rolled back
UnregisterCommit(db, c) ==
    IF CopiesIn(<<c.activity, c.email>>, db.activity_participants) # 1
    THEN Result(db, ServerError(c))
    ELSE Result([db EXCEPT !.activity_participants = @ (-) SetToBag({<<c.activity, c.email>>})],
                [c EXCEPT !.db = Commit(@), !.pending = {}, !.pc = "done",
                          !.status_code = 200,
                          !.message = UnregisteredMessage(c.email, c.activity_name)])

\* get_activities: activities_dict = {}; activities = db.query(Activity).all().
\* The query has no ORDER BY; SQLite scans the table in rowid order, which is
\* the order of the ids.
QueryAll(db, c) ==
    Result(db, [c EXCEPT !.db = Query(@), !.rows = db.activities, !.pc = "build"])

\* get_activities: the value stored for one activity; activity.participants is
\* loaded by a SELECT of its own when the loop reaches the activity
ActivityDetails(db, a) ==
    [description |-> a.description, schedule |-> a.schedule,
     max_participants |-> a.max_participants,
     participants |-> ActivityParticipants(db, a.id)]

\* activities_dict[name] = details
SetItem(dict, name, details) ==
    [n \in DOMAIN dict \cup {name} |-> IF n = name THEN details ELSE dict[n]]

\* get_activities: one iteration of the loop over the rows still to visit, or
\* the return when none is left
Build(db, c) ==
    IF c.rows = {}
    THEN Result(db, [c EXCEPT !.pc = "done", !.status_code = 200])
    ELSE LET a == CHOOSE x \in c.rows : \A y \in c.rows : x.id <= y.id
         IN  Result(db, [c EXCEPT !.activities_dict = SetItem(@, a.name, ActivityDetails(db, a)),
                                  !.rows = @ \ {a}])

\* One step of a handler, by its position
Step(db, c) ==
    CASE c.pc = "start" -> Acquire(db, c)
      [] c.pc = "query_activity" -> QueryActivity(db, c)
      [] c.pc = "query_participant" -> QueryParticipant(db, c)
      [] c.pc = "check" /\ c.op = "signup" -> SignupCheck(db, c)
      [] c.pc = "check" /\ c.op = "unregister" -> UnregisterCheck(db, c)
      [] c.pc = "append" -> SignupAppend(db, c)
      [] c.pc = "remove" -> UnregisterRemove(db, c)
      [] c.pc = "commit" /\ c.op = "signup" -> SignupCommit(db, c)
      [] c.pc = "commit" /\ c.op = "unregister" -> UnregisterCommit(db, c)
      [] c.pc = "query_all" -> QueryAll(db, c)
      [] c.pc = "build" -> Build(db, c)

RECURSIVE Run(_, _)
\* A handler run from its first statement to its response, nothing interleaved
Run(db, c) ==
    IF c.pc = "done" THEN Result(db, c)
    ELSE LET r == Step(db, c) IN Run(r.db, r.c)

\* GET /activities
get_activities(db) == Run(db, NewRequest("get_activities", "", ""))

\* POST /activities/{activity_name}/signup?email=...
signup_for_activity(db, activity_name, email) ==
    Run(db, NewRequest("signup", activity_name, email))

\* DELETE /activities/{activity_name}/unregister?email=...
unregister_from_activity(db, activity_name, email) ==
    Run(db, NewRequest("unregister", activity_name, email))

(***************************************************************************)
(* Initial states                                                          *)
(***************************************************************************)
\* The store right after init_sample_data has filled an empty database
SeedStore ==
    [activities |-> sample_activities,
     participants |-> { row[2] : row \in sample_enrollment },
     activity_participants |-> SetToBag(sample_enrollment)]

\* The store found at startup after an earlier run in which Chess Club filled up
FullChessStore ==
    [activities |-> sample_activities,
     participants |-> { row[2] : row \in sample_enrollment \cup EarlierSignups },
     activity_participants |-> SetToBag(sample_enrollment \cup EarlierSignups)]

InitStore(db) ==
    /\ activities = db.activities
    /\ participants = db.participants
    /\ activity_participants = db.activity_participants

Init ==
    /\ \E db \in {SeedStore, FullChessStore} : InitStore(db)
    /\ last = Idle
    /\ req = [r \in Requests |-> Idle]

InitConc ==
    /\ InitStore(SeedStore)
    /\ last = Idle
    /\ req = [r \in Requests |-> Idle]

(***************************************************************************)
(* Spec: requests one at a time                                            *)
(***************************************************************************)
Serve(r) ==
    /\ activities' = r.db.activities
    /\ participants' = r.db.participants
    /\ activity_participants' = r.db.activity_participants
    /\ last' = r.c
    /\ UNCHANGED req

GetActivities == Serve(get_activities(DB))

Signup == \E a \in ActivityNames, e \in Emails : Serve(signup_for_activity(DB, a, e))

Unregister == \E a \in ActivityNames, e \in Emails : Serve(unregister_from_activity(DB, a, e))

Next == GetActivities \/ Signup \/ Unregister

Spec == Init /\ [][Next]_vars

(***************************************************************************)
(* SpecConc: handlers in worker threads, interleaved between statements    *)
(***************************************************************************)
\* worker r performs the step its handler is at
Advance(r) ==
    LET out == Step(DB, req[r])
    IN  /\ activities' = out.db.activities
        /\ participants' = out.db.participants
        /\ activity_participants' = out.db.activity_participants
        /\ req' = [req EXCEPT ![r] = out.c]
        /\ UNCHANGED last

At(r, op, pc) == req[r].op = op /\ req[r].pc = pc

\* a request arrives and is handed to an idle worker
Receive ==
    \E r \in Requests :
        /\ req[r].pc = "idle"
        /\ \/ req' = [req EXCEPT ![r] = NewRequest("get_activities", "", "")]
           \/ \E op \in {"signup", "unregister"}, a \in ConcActivityNames, e \in ConcEmails :
                req' = [req EXCEPT ![r] = NewRequest(op, a, e)]
        /\ UNCHANGED <<activities, participants, activity_participants, last>>

\* the response is sent and the worker is free again
Respond ==
    \E r \in Requests :
        /\ req[r].pc = "done"
        /\ req' = [req EXCEPT ![r] = Idle]
        /\ UNCHANGED <<activities, participants, activity_participants, last>>

ConcAcquire == \E r \in Requests : req[r].pc = "start" /\ Advance(r)
ConcQueryActivity == \E r \in Requests : req[r].pc = "query_activity" /\ Advance(r)
ConcQueryParticipant == \E r \in Requests : req[r].pc = "query_participant" /\ Advance(r)
ConcSignupCheck == \E r \in Requests : At(r, "signup", "check") /\ Advance(r)
ConcSignupAppend == \E r \in Requests : At(r, "signup", "append") /\ Advance(r)
ConcSignupCommit == \E r \in Requests : At(r, "signup", "commit") /\ Advance(r)
ConcUnregisterCheck == \E r \in Requests : At(r, "unregister", "check") /\ Advance(r)
ConcUnregisterRemove == \E r \in Requests : At(r, "unregister", "remove") /\ Advance(r)
ConcUnregisterCommit == \E r \in Requests : At(r, "unregister", "commit") /\ Advance(r)
ConcQueryAll == \E r \in Requests : At(r, "get_activities", "query_all") /\ Advance(r)
ConcBuild == \E r \in Requests : At(r, "get_activities", "build") /\ Advance(r)

NextConc ==
    \/ Receive \/ Respond
    \/ ConcAcquire \/ ConcQueryActivity \/ ConcQueryParticipant
    \/ ConcSignupCheck \/ ConcSignupAppend \/ ConcSignupCommit
    \/ ConcUnregisterCheck \/ ConcUnregisterRemove \/ ConcUnregisterCommit
    \/ ConcQueryAll \/ ConcBuild

SpecConc == InitConc /\ [][NextConc]_vars

TypeOK ==
    /\ \A row \in BagToSet(activity_participants) : activity_participants[row] >= 1
    /\ \A r \in Requests : req[r].pc \in {"idle", "start", "query_activity", "query_participant",
                                          "check", "append", "remove", "commit", "query_all",
                                          "build", "done"}

(***************************************************************************)
(* Properties                                                              *)
(***************************************************************************)
\* the association table holds a row for (activity id, email)
Associated(id, email) == CopiesIn(<<id, email>>, activity_participants) > 0

\* the step taken is the request op(activity_name, email) of Spec
Served(op, activity_name, email) ==
    /\ last'.op = op
    /\ last'.activity_name = activity_name
    /\ last'.email = email

\* the participant list of an activity as GET /activities returns it
Listed(db, activity_name) == get_activities(db).c.activities_dict[activity_name].participants

\* C1: one request at a time, a signup of an email not associated with an
\* existing activity answers 200 with 'Signed up e for A' and GET /activities
\* then lists the email; the same signup made next answers 400 'Student is
\* already signed up'.
C1_SignupOnce ==
    [][\A a \in ActivityNames, e \in Emails :
        /\ (/\ Served("signup", a, e)
            /\ FindActivity(DB, a) # NoActivity
            /\ ~Associated(FindActivity(DB, a), e))
           => /\ last'.status_code = 200
              /\ last'.message = SignedUpMessage(e, a)
              /\ e \in Listed(DB', a)
        /\ (/\ last.op = "signup" /\ last.activity_name = a /\ last.email = e
            /\ last.status_code = 200
            /\ Served("signup", a, e))
           => /\ last'.status_code = 400
              /\ last'.detail = "Student is already signed up"]_vars

C1_Witness ==
    /\ last.op = "signup" /\ last.activity_name = ChessClub /\ last.email = new
    /\ last.status_code = 400 /\ last.detail = "Student is already signed up"
    /\ new \in Listed(DB, ChessClub)

\* C2: one request at a time, an unregister of an email associated with an
\* existing activity answers 200 and the email leaves the activity's list; the
\* same unregister made next, and an unregister of an email with no
\* participant row, answer 400 'Student is not signed up for this activity'.
C2_UnregisterOnce ==
    [][\A a \in ActivityNames, e \in Emails :
        /\ (/\ Served("unregister", a, e)
            /\ FindActivity(DB, a) # NoActivity
            /\ Associated(FindActivity(DB, a), e))
           => /\ last'.status_code = 200
              /\ e \notin Listed(DB', a)
        /\ (/\ last.op = "unregister" /\ last.activity_name = a /\ last.email = e
            /\ last.status_code = 200
            /\ Served("unregister", a, e))
           => /\ last'.status_code = 400
              /\ last'.detail = "Student is not signed up for this activity"
        /\ (/\ Served("unregister", a, e)
            /\ FindActivity(DB, a) # NoActivity
            /\ e \notin participants)
           => /\ last'.status_code = 400
              /\ last'.detail = "Student is not signed up for this activity"]_vars

C2_Witness ==
    /\ last.op = "unregister" /\ last.activity_name = ChessClub /\ last.email = michael
    /\ last.status_code = 400
    /\ michael \in participants
    /\ michael \notin Listed(DB, ChessClub)

\* C3: after any history of requests run one at a time, a signup on an
\* existing activity answers 200 exactly when the email is not associated with
\* the activity at that moment, and from any such state signup, unregister,
\* signup of the same pair answer 200 three times.
C3_NoPermanentExclusion ==
    /\ [][\A a \in ActivityNames, e \in Emails :
            (Served("signup", a, e) /\ FindActivity(DB, a) # NoActivity)
            => (last'.status_code = 200 <=> ~Associated(FindActivity(DB, a), e))]_vars
    /\ [](\A a \in ActivityNames, e \in Emails :
            (FindActivity(DB, a) # NoActivity /\ ~Associated(FindActivity(DB, a), e))
            => LET s1 == signup_for_activity(DB, a, e)
                   s2 == unregister_from_activity(s1.db, a, e)
                   s3 == signup_for_activity(s2.db, a, e)
               IN  /\ s1.c.status_code = 200
                   /\ s2.c.status_code = 200
                   /\ s3.c.status_code = 200)

\* michael is enrolled in Chess Club by the sample data: a successful signup
\* of michael there comes after an unregister
C3_Witness ==
    /\ last.op = "signup" /\ last.activity_name = ChessClub /\ last.email = michael
    /\ last.status_code = 200
    /\ Associated(1, michael)

\* C4: a signup or unregister naming an activity that matches no row ends
\* with 404 'Activity not found' for every email, and never gets as far as
\* looking the participant up.
C4_UnknownActivity ==
    \A r \in Requests :
        (/\ req[r].op \in {"signup", "unregister"}
         /\ FindActivity(DB, req[r].activity_name) = NoActivity)
        => /\ req[r].pc \in {"start", "query_activity", "done"}
           /\ ~req[r].queried_participant
           /\ req[r].pc = "done" => /\ req[r].status_code = 404
                                    /\ req[r].detail = "Activity not found"

C4_Witness ==
    \E r \in Requests :
        /\ req[r].op = "unregister" /\ req[r].activity_name = UnknownClub
        /\ req[r].email = emma /\ emma \in participants
        /\ req[r].pc = "done" /\ req[r].status_code = 404

\* C5: in every reachable state of the store the association table holds at
\* most one row for any (activity, participant email).
C5_AtMostOneRow ==
    \A row \in DOMAIN activity_participants : activity_participants[row] <= 1

\* C6: a request that ends with 404 or 400 leaves activities, participants
\* and associations exactly as they were; a failed signup adds no participant.
C6_FailureHasNoEffect ==
    [][last'.status_code \in {400, 404}
        => /\ activities' = activities
           /\ participants' = participants
           /\ activity_participants' = activity_participants]_vars

C6_Witness ==
    /\ last.op = "unregister" /\ last.activity_name = ChessClub /\ last.email = new
    /\ last.status_code = 400
    /\ new \notin participants

\* C7: the session of a request is not closed while the handler uses it, and
\* once the request has ended it is closed and holds no transaction.
C7_SessionScoped ==
    \A r \in Requests :
        /\ req[r].pc \in {"query_activity", "query_participant", "check", "append", "remove",
                          "commit", "query_all", "build"} => ~req[r].db.closed
        /\ req[r].pc = "done" => (req[r].db.closed /\ ~req[r].db.in_transaction)

\* C8 as stated: every signup that has passed the 'already signed up' check
\* goes on to write its association.
C8_EveryPassedSignupWrites ==
    \A r \in Requests :
        (req[r].op = "signup" /\ req[r].pc = "done" /\ req[r].status_code \notin {400, 404})
        => req[r].status_code = 200

\* C8 amended: a signup that has passed the check and found the participant
\* row in place writes its association row at commit however many rows for
\* the pair the table already holds; a signup that is creating the participant
\* fails at commit exactly when the row has been committed meanwhile.
C8_CheckThenAct ==
    [][\A r \in Requests :
        (At(r, "signup", "commit") /\ req'[r].pc = "done")
        => LET row == <<req[r].activity, req[r].email>>
               clash == "participant" \in req[r].pending /\ req[r].email \in participants
           IN  /\ clash => /\ req'[r].status_code = 500
                           /\ activity_participants' = activity_participants
               /\ ~clash => /\ req'[r].status_code = 200
                            /\ CopiesIn(row, activity_participants')
                                 = CopiesIn(row, activity_participants) + 1]_vars

\* two rows for (Chess Club, emma): both requests passed the check
C8_Witness ==
    /\ CopiesIn(<<1, emma>>, activity_participants) = 2
    /\ \E r \in Requests : /\ req[r].op = "signup" /\ req[r].email = emma
                           /\ req[r].pc = "done" /\ req[r].status_code = 200

\* C9: a signup of an email not enrolled in an existing activity answers 200
\* also when the activity already has max_participants participants or more,
\* and the activity then has more participants than max_participants.
C9_NoCapacityCheck ==
    [][\A a \in ActivityNames, e \in Emails :
        (/\ Served("signup", a, e)
         /\ FindActivity(DB, a) # NoActivity
         /\ ~Associated(FindActivity(DB, a), e)
         /\ Cardinality(ActivityParticipants(DB, FindActivity(DB, a)))
              >= (CHOOSE x \in activities : x.name = a).max_participants)
        => /\ last'.status_code = 200
           /\ Cardinality(Listed(DB', a)) > (CHOOSE x \in activities : x.name = a).max_participants]_vars

C9_Witness ==
    /\ last.op = "signup" /\ last.activity_name = ChessClub /\ last.status_code = 200
    /\ Cardinality(Listed(DB, ChessClub)) > 12

\* every association row refers to an activity row and a participant row
ReferentialIntegrity ==
    \A row \in DOMAIN activity_participants :
        /\ \E a \in activities : a.id = row[1]
        /\ row[2] \in participants

\* C10: no request changes the activity rows; participant rows are only
\* added, and one is added exactly by a successful signup of an email without
\* a row; a successful unregister removes the one association and nothing
\* else; every association row refers to existing rows.
C10_RowLifecycle ==
    /\ []ReferentialIntegrity
    /\ [][/\ activities' = activities
          /\ participants \subseteq participants'
          /\ participants' # participants
               => /\ last'.op = "signup" /\ last'.status_code = 200
                  /\ last'.email \notin participants
                  /\ participants' = participants \cup {last'.email}
          /\ (last'.op = "signup" /\ last'.status_code = 200) => last'.email \in participants'
          /\ (last'.op = "unregister" /\ last'.status_code = 200)
               => /\ participants' = participants
                  /\ activity_participants' = activity_participants
                        (-) SetToBag({<<FindActivity(DB, last'.activity_name), last'.email>>})
                  /\ Associated(FindActivity(DB, last'.activity_name), last'.email)]_vars

\* emma has left Chess Club and is still a participant, enrolled in Programming Class
C10_Witness ==
    /\ last.op = "unregister" /\ last.activity_name = ChessClub /\ last.email = emma
    /\ last.status_code = 200
    /\ emma \in participants
    /\ Associated(2, emma)
    /\ ~Associated(1, emma)

====
